---- MODULE Spec2Model ----
(***************************************************************************)
(* The credential-issuance core of i.s.t.d-pro-server: the register and    *)
(* login handlers of src/controllers/authController.js, the User schema of *)
(* src/models/User.js that stands behind them, the two JWT issuers, and    *)
(* the refresh endpoint that src/routes/auth.js wires.                     *)
(* The handlers are followed from the moment they are called (Spec,       *)
(* SpecSession); how the process starts and what its router dispatches is  *)
(* followed separately (SpecRoutes, SpecStartup).                          *)
(*                                                                         *)
(* Strings that the code inspects (emails, names, passwords) are sequences *)
(* of one-character strings, so that trimming, lowercasing, length checks  *)
(* and the email pattern are computed, not assumed.                        *)
(*                                                                         *)
(* Library behaviour relied on (mongoose, bcryptjs, jsonwebtoken):         *)
(*  - schema setters (trim, lowercase) run when a document is built and    *)
(*    when a query filter on that path is cast;                            *)
(*  - validation runs before the pre-save hooks, and the insert is         *)
(*    rejected with E11000 by the unique index on email;                   *)
(*  - jwt.sign throws when the secret is empty or undefined.               *)
(***************************************************************************)
EXTENDS Integers, Sequences, FiniteSets, TLC

VARIABLES env, users, reqs, now

(* The process: where the startup script stands (proc), the state of the   *)
(* database connection (db), the routes registered on the auth router      *)
(* (router), and the HTTP requests clients have sent with what became of   *)
(* each (http).                                                            *)
VARIABLES proc, db, router, http

server == <<proc, db, router, http>>

vars == <<env, users, reqs, now, proc, db, router, http>>

-----------------------------------------------------------------------------
(* Bounds of the model *)

MaxReqs == 3

MaxNow == 30

MaxHttp == 2

(* Program constants *)

AccessDays == 7

RefreshDays == 30

MinLength == 6

-----------------------------------------------------------------------------
(* Characters and strings *)

UpperChars == <<"A","B","C","D","E","F","G","H","I","J","K","L","M",
                "N","O","P","Q","R","S","T","U","V","W","X","Y","Z">>

LowerChars == <<"a","b","c","d","e","f","g","h","i","j","k","l","m",
                "n","o","p","q","r","s","t","u","v","w","x","y","z">>

Digits == {"0","1","2","3","4","5","6","7","8","9"}

Range(s) == { s[i] : i \in DOMAIN s }

(* \w of a JavaScript regular expression *)
IsWord(c) == c \in Range(UpperChars) \cup Range(LowerChars) \cup Digits \cup {"_"}

IsSep(c) == c \in {".", "-"}

ToLowerChar(c) ==
    IF \E i \in DOMAIN UpperChars : UpperChars[i] = c
    THEN LowerChars[CHOOSE i \in DOMAIN UpperChars : UpperChars[i] = c]
    ELSE c

(* String.prototype.toLowerCase *)
ToLower(s) == [ i \in DOMAIN s |-> ToLowerChar(s[i]) ]

RECURSIVE TrimLeft(_)
TrimLeft(s) == IF s # <<>> /\ Head(s) = " " THEN TrimLeft(Tail(s)) ELSE s

RECURSIVE TrimRight(_)
TrimRight(s) ==
    IF s # <<>> /\ s[Len(s)] = " " THEN TrimRight(SubSeq(s, 1, Len(s) - 1)) ELSE s

(* String.prototype.trim *)
Trim(s) == TrimRight(TrimLeft(s))

-----------------------------------------------------------------------------
(* The email pattern of the schema:                                        *)
(*   /^\w+([\.-]?\w+)*@\w+([\.-]?\w+)*(\.\w{2,3})+$/                       *)

(* \w+([\.-]?\w+)* : word characters and single separators, a word         *)
(* character first and last, no two separators in a row                    *)
IsDotted(s) ==
    /\ s # <<>>
    /\ \A i \in DOMAIN s : IsWord(s[i]) \/ IsSep(s[i])
    /\ IsWord(s[1])
    /\ IsWord(s[Len(s)])
    /\ \A i \in 1..(Len(s) - 1) : ~(IsSep(s[i]) /\ IsSep(s[i + 1]))

(* (\.\w{2,3})+ *)
RECURSIVE IsTlds(_)
IsTlds(s) ==
    \E k \in {3, 4} :
        /\ Len(s) >= k
        /\ s[1] = "."
        /\ \A i \in 2..k : IsWord(s[i])
        /\ (Len(s) = k \/ IsTlds(SubSeq(s, k + 1, Len(s))))

EmailRegexTest(s) ==
    \E a \in DOMAIN s :
        /\ s[a] = "@"
        /\ IsDotted(SubSeq(s, 1, a - 1))
        /\ \E j \in (a + 1)..(Len(s) - 1) :
              /\ IsDotted(SubSeq(s, a + 1, j))
              /\ IsTlds(SubSeq(s, j + 1, Len(s)))

-----------------------------------------------------------------------------
(* Request bodies. A field of req.body is either absent (undefined) or a   *)
(* string.                                                                 *)

Absent == [p |-> FALSE, v |-> <<>>]

Str(s) == [p |-> TRUE, v |-> s]

(* JavaScript's !x for a field that is undefined or a string *)
Falsy(f) == ~f.p \/ f.v = <<>>

Ann == <<"A","n","n">>

MailA == <<"a","@","b",".","c","o">>

MailAUpper == <<" ","A","@","B",".","c","o">>

MailC == <<"c","@","d",".","c","o">>

MailBad == <<"a","b">>

Secret == <<"s","e","c","r","e","t">>

Hunter == <<"h","u","n","t","e","r">>

Short == <<"a","b","c">>

(* role is compared as a whole, never inspected character by character *)
Admin == <<"admin">>

Manager == <<"manager">>

Employee == <<"employee">>

RoleEnum == {Admin, Employee}

-----------------------------------------------------------------------------
(* User schema: setters and validators *)

(* The email setters without lowercase: true *)
EmailSettersNoLowercase(s) == Trim(s)

(* email: { lowercase: true, trim: true } *)
EmailSetters(s) == ToLower(Trim(s))

(* name: { trim: true } *)
NameSetters(s) == Trim(s)

(* A filter that is sent to the store as the caller wrote it *)
CastForQueryNoSetters(s) == s

(* Casting of the filter { email } of a query: the path's setters run *)
CastForQuery(s) == EmailSetters(s)

(* The validators of the schema, on a document whose setters have run.     *)
(* The result is the set of failed paths with the message of each.         *)
ValidationErrors(doc) ==
       (IF doc.name = <<>> THEN {"name: Please provide a name"} ELSE {})
  \cup (IF doc.email = <<>> THEN {"email: Please provide an email"} ELSE {})
  \cup (IF doc.email # <<>> /\ ~EmailRegexTest(doc.email)
        THEN {"email: Please provide a valid email address"} ELSE {})
  \cup (IF doc.password = <<>> THEN {"password: Please proovide a password"} ELSE {})
  \cup (IF doc.password # <<>> /\ Len(doc.password) < MinLength
        THEN {"password: shorter than the minimum allowed length"} ELSE {})
  \cup (IF doc.role \notin RoleEnum
        THEN {"role: not a valid enum value"} ELSE {})

-----------------------------------------------------------------------------
(* bcryptjs. A hash is modelled as the pair of what was hashed and the     *)
(* salt; nothing in the model reads the plaintext out of it except         *)
(* Compare, which recomputes the hash under the stored salt. genSalt draws *)
(* a fresh salt at each call: the call's salt is the index of the request  *)
(* that makes it.                                                          *)
GenSalt(i) == i

BcryptHash(plain, salt) == [plain |-> plain, salt |-> salt]

BcryptCompare(entered, hash) == BcryptHash(entered, hash.salt) = hash

(* userSchema.methods.matchPassword *)
MatchPassword(user, enteredPassword) == BcryptCompare(enteredPassword, user.password)

-----------------------------------------------------------------------------
(* The users collection *)

(* User.findOne({ email }) *)
HasUser(email) == \E i \in DOMAIN users : users[i].email = CastForQuery(email)

FindOne(email) ==
    users[CHOOSE i \in DOMAIN users : users[i].email = CastForQuery(email)]

(* A collection without the unique index *)
NoUniqueIndex(doc) == FALSE

(* The unique index on email rejects the insert of a second document with  *)
(* the same stored value.                                                  *)
UniqueIndexRejects(doc) == \E i \in DOMAIN users : users[i].email = doc.email

(* The document User.create builds from the handler's argument *)
NewDoc(body) ==
    [ id       |-> Len(users) + 1,
      name     |-> NameSetters(body.name.v),
      email    |-> EmailSetters(body.email.v),
      password |-> body.password.v,
      role     |-> IF Falsy(body.role) THEN Employee ELSE body.role.v ]

(* pre('save'): the password is replaced by its hash *)
PreSave(doc, salt) == [doc EXCEPT !.password = BcryptHash(doc.password, salt)]

-----------------------------------------------------------------------------
(* jsonwebtoken. A token is its payload { id, iat, exp } and a signature   *)
(* that binds the payload to the signing secret. Time is counted in days.  *)

(* process.env.X when X is not set (or set to the empty string) *)
Unset == ""

SecretValues == {Unset, "k1", "k2"}

Hmac(secret, id, iat, exp) == <<secret, id, iat, exp>>

(* jwt.sign throws 'secretOrPrivateKey must have a value' *)
SignThrows(secret) == secret = Unset

JwtSign(id, secret, days) ==
    [ wf  |-> TRUE, id |-> id, iat |-> now, exp |-> now + days,
      sig |-> Hmac(secret, id, now, now + days) ]

(* const generateToken = (id) => jwt.sign({ id }, process.env.JWT_SECRET, { expiresIn: '7d' }) *)
generateToken(id) == JwtSign(id, env.JWT_SECRET, AccessDays)

(* const generateRefreshToken = (id) => jwt.sign({ id }, process.env.JWT_REFRESH_SECRET, { expiresIn: '30d' }) *)
generateRefreshToken(id) == JwtSign(id, env.JWT_REFRESH_SECRET, RefreshDays)

(* The value of a response field that carries no token, and a string that  *)
(* is not of the shape header.payload.signature                            *)
NoToken == [ wf |-> FALSE, id |-> 0, iat |-> 0, exp |-> 0, sig |-> Hmac(Unset, 0, 0, 0) ]

(* One altered character in the signature segment *)
Tamper(t) == [t EXCEPT !.sig = Hmac("tampered", t.id, t.iat, t.exp)]

(* jwt.verify(token, secret) at the current time: the shape first, then    *)
(* the signature, then the expiry.                                         *)
JwtVerify(t, secret) ==
    IF ~t.wf THEN "TokenMalformed"
    ELSE IF secret = Unset THEN "NoSecret"
    ELSE IF t.sig # Hmac(secret, t.id, t.iat, t.exp) THEN "TokenInvalidSignature"
    ELSE IF now >= t.exp THEN "TokenExpired"
    ELSE "ok"

verifyAccess(t) == JwtVerify(t, env.JWT_SECRET)

verifyRefresh(t) == JwtVerify(t, env.JWT_REFRESH_SECRET)

-----------------------------------------------------------------------------
(* Responses: res.status(s).json({...}) *)

NoView == <<>>

(* The whole fetched or created document as the user object *)
UserViewWholeDocument(user) == user

(* The user object of the success bodies *)
UserView(user) ==
    [ id |-> user.id, name |-> user.name, email |-> user.email, role |-> user.role ]

Response(status, flag, message, echo, token, refreshToken, view) ==
    [ status |-> status, flag |-> flag, message |-> message, echo |-> echo,
      token |-> token, refreshToken |-> refreshToken, user |-> view ]

(* No response has been sent *)
NoResponse == Response(0, "", {}, {}, NoToken, NoToken, NoView)

Fail(status, flag, message, echo) ==
    Response(status, flag, message, echo, NoToken, NoToken, NoView)

(* The values of the document that mongoose's default validator messages   *)
(* quote: minlength quotes the rejected value, enum quotes the value; the  *)
(* messages the schema supplies itself quote nothing.                      *)
ValidationEcho(doc) ==
       (IF doc.password # <<>> /\ Len(doc.password) < MinLength
        THEN {[path |-> "password", value |-> doc.password]} ELSE {})
  \cup (IF doc.role \notin RoleEnum
        THEN {[path |-> "role", value |-> doc.role]} ELSE {})

(* E11000 duplicate key error ... dup key: { email: "..." } *)
DuplicateEcho(doc) == {[path |-> "email", value |-> doc.email]}

-----------------------------------------------------------------------------
(* Requests. Each request is one run of a handler; its record holds the    *)
(* handler's locals (userExists, user, error), the return statement it     *)
(* left through (exit, a source line), the requests that had been answered *)
(* when it arrived (after) and the response it sent.                       *)

Body(name, email, password, role, refreshToken) ==
    [ name |-> name, email |-> email, password |-> password, role |-> role,
      refreshToken |-> refreshToken ]

NoRefresh == [p |-> FALSE, v |-> NoToken]

(* The bodies the requests are drawn from: well-formed registrations for  *)
(* two identities, one of them also in another casing and with a leading   *)
(* blank, with and without a role, and one ill-formed body per check.      *)
RegisterBodies ==
    { Body(Str(Ann), Str(MailA), Str(Secret), Absent, NoRefresh),
      Body(Str(Ann), Str(MailAUpper), Str(Secret), Str(Admin), NoRefresh),
      Body(Str(Ann), Str(MailC), Str(Secret), Absent, NoRefresh),
      Body(Absent, Str(MailA), Str(Secret), Absent, NoRefresh),
      Body(Str(Ann), Str(MailBad), Str(Secret), Absent, NoRefresh),
      Body(Str(Ann), Str(MailA), Str(Short), Absent, NoRefresh),
      Body(Str(Ann), Str(MailC), Str(Secret), Str(Manager), NoRefresh) }

LoginBodies ==
    { Body(Absent, Str(MailA), Str(Secret), Absent, NoRefresh),
      Body(Absent, Str(MailAUpper), Str(Secret), Absent, NoRefresh),
      Body(Absent, Str(MailC), Str(Secret), Absent, NoRefresh),
      Body(Absent, Str(MailA), Str(Hunter), Absent, NoRefresh),
      Body(Absent, Str(MailA), Absent, Absent, NoRefresh) }

(* Requests that have been answered *)
Done == { i \in DOMAIN reqs : reqs[i].pc = "done" }

Request(op, body, pc, userExists, user, error, exit, resp) ==
    [ op |-> op, body |-> body, pc |-> pc, userExists |-> userExists,
      user |-> user, error |-> error, exit |-> exit, after |-> Done,
      resp |-> resp ]

(* What the controller module exports: exports.register, exports.login *)
ControllerExports == {"register", "login"}

(* const { register, login, refreshToken } = require('../controllers/authController.js') *)
Imported(name) == IF name \in ControllerExports THEN name ELSE "undefined"

-----------------------------------------------------------------------------
(* exports.register, up to the await of User.findOne *)
RegisterLookup(body) ==
    /\ Len(reqs) < MaxReqs
    /\ reqs' = Append(reqs,
          IF Falsy(body.name) \/ Falsy(body.email) \/ Falsy(body.password)
          THEN Request("register", body, "done", FALSE, 0, "", "L104",
                   Fail(400, "success:false",
                        {"Please provide name, email, and password"}, {}))
          ELSE IF HasUser(body.email.v)
          THEN Request("register", body, "done", TRUE, 0, "", "L119",
                   Fail(400, "success:false", {"Email already registered"}, {}))
          ELSE Request("register", body, "create", FALSE, 0, "", "", NoResponse))
    /\ UNCHANGED <<env, users, now, server>>

(* exports.register, from User.create to the response *)
RegisterCreate(i) ==
    /\ i \in DOMAIN reqs
    /\ reqs[i].pc = "create"
    /\ LET body == reqs[i].body
           doc  == NewDoc(body)
           errs == ValidationErrors(doc)
           saved == PreSave(doc, GenSalt(i))
           finish(user, error, exit, resp) ==
               [reqs EXCEPT ![i] = [@ EXCEPT !.pc = "done", !.user = user,
                                              !.error = error, !.exit = exit,
                                              !.resp = resp]]
       IN  IF errs # {}
           THEN /\ reqs' = finish(0, "ValidationError", "L161",
                               Fail(500, "sucess:false",
                                    {"User validation failed"} \cup errs,
                                    ValidationEcho(doc)))
                /\ UNCHANGED users
           ELSE IF UniqueIndexRejects(saved)
           THEN /\ reqs' = finish(0, "E11000", "L161",
                               Fail(500, "sucess:false",
                                    {"E11000 duplicate key error"},
                                    DuplicateEcho(saved)))
                /\ UNCHANGED users
           ELSE /\ users' = Append(users, saved)
                /\ IF SignThrows(env.JWT_SECRET) \/ SignThrows(env.JWT_REFRESH_SECRET)
                   THEN reqs' = finish(saved.id, "secretOrPrivateKey", "L161",
                                   Fail(500, "sucess:false",
                                        {"secretOrPrivateKey must have a value"}, {}))
                   ELSE reqs' = finish(saved.id, "", "L149",
                                   Response(201, "success:true", {}, {},
                                            generateToken(saved.id),
                                            generateRefreshToken(saved.id),
                                            UserView(saved)))
    /\ UNCHANGED <<env, now, server>>

(* exports.login. The store is read once (findOne); everything after the   *)
(* read works on the fetched document.                                     *)
Login(body) ==
    /\ Len(reqs) < MaxReqs
    /\ reqs' = Append(reqs,
          IF Falsy(body.email) \/ Falsy(body.password)
          THEN Request("login", body, "done", FALSE, 0, "", "L210",
                   Fail(400, "success:false", {"Please provide email and password"}, {}))
          ELSE IF ~HasUser(body.email.v)
          THEN Request("login", body, "done", FALSE, 0, "", "L232",
                   Fail(401, "success:false", {"Invalid credentials"}, {}))
          ELSE LET user == FindOne(body.email.v) IN
               IF ~MatchPassword(user, body.password.v)
               THEN Request("login", body, "done", TRUE, user.id, "", "L252",
                        Fail(401, "success:false", {"invalid credentials"}, {}))
               ELSE IF SignThrows(env.JWT_SECRET) \/ SignThrows(env.JWT_REFRESH_SECRET)
               THEN Request("login", body, "done", TRUE, user.id,
                        "secretOrPrivateKey", "L277",
                        Fail(500, "success:false",
                             {"secretOrPrivateKey must have a value"}, {}))
               ELSE Request("login", body, "done", TRUE, user.id, "", "L265",
                        Response(200, "success:true", {}, {},
                                 generateToken(user.id),
                                 generateRefreshToken(user.id),
                                 UserView(user))))
    /\ UNCHANGED <<env, users, now, server>>

(* Tokens the service has handed out *)
IssuedTokens ==
    UNION { {reqs[i].resp.token, reqs[i].resp.refreshToken} :
              i \in { j \in Done : reqs[j].resp.status \in {200, 201} } }

IssuedRefreshTokens ==
    { reqs[i].resp.refreshToken : i \in { j \in Done : reqs[j].resp.status \in {200, 201} } }

RefreshBodies ==
    { Body(Absent, Absent, Absent, Absent, t) :
        t \in {NoRefresh, [p |-> TRUE, v |-> NoToken]}
              \cup { [p |-> TRUE, v |-> x] : x \in IssuedTokens }
              \cup { [p |-> TRUE, v |-> Tamper(x)] : x \in IssuedRefreshTokens } }

(* POST /api/auth/refresh. The route is given the refreshToken the         *)
(* controller module exports; the module exports none, so there is no      *)
(* handler to run and nothing answers with a token or an error status.     *)
Refresh(body) ==
    /\ Len(reqs) < MaxReqs
    /\ Imported("refreshToken") = "undefined"
    /\ reqs' = Append(reqs,
          Request("refresh", body, "done", FALSE, 0, "TypeError", "undefined",
                  NoResponse))
    /\ UNCHANGED <<env, users, now, server>>

(* Time passes *)
Tick(d) ==
    /\ now + d <= MaxNow
    /\ now' = now + d
    /\ UNCHANGED <<env, users, reqs, server>>

(* The environment the process starts with. Nothing at startup reads the   *)
(* two secrets, so each may be unset and the two may be equal.             *)
InitWith(envs) ==
    /\ env \in envs
    /\ users = <<>>
    /\ reqs = <<>>
    /\ now = 0
    /\ proc = "load"
    /\ db = "idle"
    /\ router = <<>>
    /\ http = <<>>

(* Register and login only sign, and fail alike when either secret is     *)
(* unset: here the secrets are both set or the first is unset. InitSession *)
(* below starts from every combination.                                    *)
Init ==
    InitWith({ [JWT_SECRET |-> "k1", JWT_REFRESH_SECRET |-> "k2"],
               [JWT_SECRET |-> Unset, JWT_REFRESH_SECRET |-> "k2"] })

(* The register and login handlers against the store *)
Next ==
    \/ \E body \in RegisterBodies : RegisterLookup(body)
    \/ \E i \in DOMAIN reqs : RegisterCreate(i)
    \/ \E body \in LoginBodies : Login(body)

Spec == Init /\ [][Next]_vars

(* The life of the tokens: registrations and logins that hand them out,    *)
(* the refresh endpoint they are presented to, and the passing of time.    *)
SessionRegisterBodies ==
    { Body(Str(Ann), Str(MailA), Str(Secret), Absent, NoRefresh),
      Body(Str(Ann), Str(MailC), Str(Secret), Str(Admin), NoRefresh) }

SessionLoginBodies ==
    { Body(Absent, Str(MailA), Str(p), Absent, NoRefresh) : p \in {Secret, Hunter} }

NextSession ==
    \/ \E body \in SessionRegisterBodies : RegisterLookup(body)
    \/ \E i \in DOMAIN reqs : RegisterCreate(i)
    \/ \E body \in SessionLoginBodies : Login(body)
    \/ \E body \in RefreshBodies : Refresh(body)
    \/ \E d \in {AccessDays, RefreshDays} : Tick(d)

InitSession ==
    InitWith([JWT_SECRET : {Unset, "k1"}, JWT_REFRESH_SECRET : SecretValues])

SpecSession == InitSession /\ [][NextSession]_vars

-----------------------------------------------------------------------------
(* Startup and routing: server.js, src/app.js, src/routes/auth.js and the  *)
(* connectDB of the database module. A URL path is the sequence of its     *)
(* separators and segments.                                                *)
(*                                                                         *)
(* Library behaviour relied on (express, node):                            *)
(*  - router.post(path, handler) throws when handler is not a function;    *)
(*  - an exception thrown while a module loads ends the process;           *)
(*  - a route matches the whole remaining path, with an optional trailing  *)
(*    slash, and a mount path is stripped before the router is asked;      *)
(*  - a promise's continuation runs after the running script has ended.    *)

Methods == {"GET", "POST"}

(* app.get('/api/health', ...) *)
HealthPath == <<"/", "api", "/", "health">>

(* app.use('/api/auth', ...) *)
MountPath == <<"/", "api", "/", "auth">>

(* The calls routes/auth.js makes on its router, in order *)
RouteCalls ==
    << [method |-> "POST", path |-> <<"register">>, handler |-> Imported("register")],
       [method |-> "POST", path |-> <<"refresh">>, handler |-> Imported("refreshToken")] >>

(* The three operations and the paths the routes file documents for them *)
Operations == {"register", "login", "refreshToken"}

OperationPath(op) ==
    MountPath \o <<"/">> \o
        << CASE op = "register" -> "register"
             [] op = "login" -> "login"
             [] op = "refreshToken" -> "refresh" >>

Urls == {HealthPath} \cup { OperationPath(op) : op \in Operations }

(* A route pattern against a path: the whole path, trailing slash optional *)
MatchRoute(pattern, path) == path = pattern \/ path = pattern \o <<"/">>

(* The path lies under the mount path *)
UnderMount(url) ==
    /\ Len(url) >= Len(MountPath)
    /\ SubSeq(url, 1, Len(MountPath)) = MountPath
    /\ (Len(url) > Len(MountPath) => url[Len(MountPath) + 1] = "/")

(* The path the mounted router sees *)
StripMount(url) ==
    IF Len(url) = Len(MountPath) THEN <<"/">>
    ELSE SubSeq(url, Len(MountPath) + 1, Len(url))

(* The routes of the auth router that take the request *)
Matching(m, url) ==
    { k \in DOMAIN router :
        router[k].method = m /\ MatchRoute(router[k].path, StripMount(url)) }

(* The middleware stack of app.js: the health route, the auth router,     *)
(* the 404 handler.                                                        *)
Dispatch(m, url) ==
    IF m = "GET" /\ MatchRoute(HealthPath, url) THEN "health"
    ELSE IF UnderMount(url) /\ Matching(m, url) # {}
    THEN router[CHOOSE k \in Matching(m, url) : \A j \in Matching(m, url) : k <= j].handler
    ELSE "404"

(* The startup script is over: the server listens or the process is gone *)
Settled == proc \in {"listening", "crashed", "exited"}

(* One step of the startup script: the route registrations made while     *)
(* server.js requires app.js, then connectDB(), then app.listen.           *)
ServerStep ==
    /\ proc \in {"load", "connect", "listen"}
    /\ IF proc = "load"
       THEN IF Len(router) < Len(RouteCalls)
            THEN LET call == RouteCalls[Len(router) + 1] IN
                 IF call.handler = "undefined"
                 THEN proc' = "crashed" /\ UNCHANGED <<db, router>>
                 ELSE router' = Append(router, call) /\ UNCHANGED <<proc, db>>
            ELSE proc' = "connect" /\ UNCHANGED <<db, router>>
       ELSE IF proc = "connect"
       THEN proc' = "listen" /\ db' = "pending" /\ UNCHANGED router
       ELSE proc' = "listening" /\ UNCHANGED <<db, router>>
    /\ UNCHANGED <<env, users, reqs, now, http>>

(* await mongoose.connect(...) resolves *)
ConnectResolves ==
    /\ proc = "listening"
    /\ db = "pending"
    /\ db' = "connected"
    /\ UNCHANGED <<env, users, reqs, now, proc, router, http>>

(* await mongoose.connect(...) rejects: the catch block logs and exits *)
ConnectRejects ==
    /\ proc = "listening"
    /\ db = "pending"
    /\ db' = "failed"
    /\ proc' = "exited"
    /\ UNCHANGED <<env, users, reqs, now, router, http>>

(* A client sends a request. A process that does not listen refuses the   *)
(* connection; a listening one runs the request through the stack.        *)
ClientRequest(m, url) ==
    /\ Len(http) < MaxHttp
    /\ http' = Append(http,
          [ method |-> m, url |-> url,
            outcome |-> IF proc = "listening" THEN Dispatch(m, url) ELSE "refused" ])
    /\ UNCHANGED <<env, users, reqs, now, proc, db, router>>

(* The program as it starts: node server.js *)
InitRoutes == InitWith({ [JWT_SECRET |-> "k1", JWT_REFRESH_SECRET |-> "k2"] })

NextRoutes ==
    \/ ServerStep
    \/ \E m \in Methods, url \in Urls : ClientRequest(m, url)

SpecRoutes == InitRoutes /\ [][NextRoutes]_vars

(* server.js from connectDB() on, over an application that has loaded:    *)
(* the health route and the 404 handler of app.js.                         *)
InitStartup ==
    /\ env = [JWT_SECRET |-> "k1", JWT_REFRESH_SECRET |-> "k2"]
    /\ users = <<>>
    /\ reqs = <<>>
    /\ now = 0
    /\ proc = "connect"
    /\ db = "idle"
    /\ router = <<>>
    /\ http = <<>>

NextStartup ==
    \/ ServerStep
    \/ ConnectResolves
    \/ ConnectRejects
    \/ \E m \in Methods, url \in Urls : ClientRequest(m, url)

SpecStartup == InitStartup /\ [][NextStartup]_vars

-----------------------------------------------------------------------------
(* Properties *)

Registers == { i \in Done : reqs[i].op = "register" }

Logins == { i \in Done : reqs[i].op = "login" }

NormEmail(i) == ToLower(Trim(reqs[i].body.email.v))

(* Neither request had been answered when the other arrived *)
Concurrent(i, j) == i \notin reqs[j].after /\ j \notin reqs[i].after

(* C1: no two stored user records have the same lowercased, trimmed email. *)
C1_UniqueNormalizedEmail ==
    \A i, j \in DOMAIN users :
        i # j => ToLower(Trim(users[i].email)) # ToLower(Trim(users[j].email))

(* A second record is in the store, and a registration of the first        *)
(* record's email in another casing has been turned away.                  *)
C1_Witness ==
    /\ Len(users) = 2
    /\ \E u \in DOMAIN users : users[u].email = MailA
    /\ \E i \in Registers :
          /\ reqs[i].body.email.v = MailAUpper
          /\ reqs[i].resp.status # 201

(* C2: of two registrations of the same email that run concurrently, at    *)
(* most one is answered with 201 and a token pair, and the other is        *)
(* answered with a failure status.                                         *)
C2_ConcurrentRegisterOneWinner ==
    \A i, j \in Registers :
        (i # j /\ Concurrent(i, j) /\ NormEmail(i) = NormEmail(j)) =>
            /\ ~(reqs[i].resp.status = 201 /\ reqs[j].resp.status = 201)
            /\ (reqs[i].resp.status >= 400 \/ reqs[j].resp.status >= 400)

(* Two registrations of one email were both past the lookup; one got 201   *)
(* with its tokens and the insert of the other was rejected by the index.  *)
C2_Witness ==
    \E i, j \in Registers :
        /\ i # j /\ Concurrent(i, j) /\ NormEmail(i) = NormEmail(j)
        /\ reqs[i].resp.status = 201 /\ reqs[i].resp.token.wf
        /\ reqs[j].error = "E11000" /\ reqs[j].resp.status >= 400

(* C3: a registration that the store reports as a duplicate, at the lookup *)
(* or at the insert, is answered with a 400-class status and writes        *)
(* nothing.                                                                *)
C3_DuplicateIsClientError ==
    \A i \in Registers :
        (reqs[i].userExists \/ reqs[i].error = "E11000") =>
            /\ reqs[i].resp.status \in {400, 409}
            /\ reqs[i].user = 0

(* C4: after a registration is answered with 201, a later login with the   *)
(* same email and password is answered with 200, the same id, the          *)
(* registered email and the role given, or employee when none was given.   *)
C4_RegisterThenLogin ==
    \A r \in Registers : \A l \in Logins :
        ( /\ reqs[r].resp.status = 201
          /\ r \in reqs[l].after
          /\ reqs[l].body.email = reqs[r].body.email
          /\ reqs[l].body.password = reqs[r].body.password ) =>
            /\ reqs[l].resp.status = 200
            /\ reqs[l].resp.user # NoView
            /\ reqs[l].resp.user.id = reqs[r].resp.user.id
            /\ reqs[l].resp.user.email = reqs[r].resp.user.email
            /\ reqs[l].resp.user.email = NormEmail(r)
            /\ reqs[l].resp.user.role =
                  (IF Falsy(reqs[r].body.role) THEN Employee ELSE reqs[r].body.role.v)

(* A registration in upper case with a role, then a login with the same    *)
(* credentials, answered for the admin it created.                         *)
C4_Witness ==
    \E r \in Registers : \E l \in Logins :
        /\ reqs[r].resp.status = 201
        /\ r \in reqs[l].after
        /\ reqs[l].body.email = reqs[r].body.email
        /\ reqs[l].body.password = reqs[r].body.password
        /\ reqs[r].body.email.v = MailAUpper
        /\ reqs[l].resp.user # NoView
        /\ reqs[l].resp.user.role = Admin

(* The login found no user for the email *)
LoginUnknownEmail(i) ==
    /\ i \in Logins
    /\ ~Falsy(reqs[i].body.email) /\ ~Falsy(reqs[i].body.password)
    /\ ~reqs[i].userExists

(* The login found the user and the password did not match *)
LoginWrongPassword(i) ==
    /\ i \in Logins
    /\ reqs[i].userExists
    /\ ~MatchPassword(users[reqs[i].user], reqs[i].body.password.v)

(* C5: a login with an unknown email and a login with a known email and a  *)
(* wrong password get the identical response.                              *)
C5_LoginFailuresIdentical ==
    \A i, j \in Logins :
        (LoginUnknownEmail(i) /\ LoginWrongPassword(j)) => reqs[i].resp = reqs[j].resp

(* C6: no response of register or login carries the stored password: the   *)
(* user object has exactly id, name, email and role, failures have no user *)
(* object, and no error text quotes a stored password.                     *)
C6_NoPasswordInResponse ==
    \A i \in Registers \cup Logins :
        /\ IF reqs[i].resp.status \in {200, 201}
           THEN DOMAIN reqs[i].resp.user = {"id", "name", "email", "role"}
           ELSE reqs[i].resp.user = NoView
        /\ \A e \in reqs[i].resp.echo : \A u \in DOMAIN users :
              e.path = "password" => e.value # users[u].password.plain

(* A login was answered from a document fetched with its password, and a   *)
(* registration failed with an error text that quotes the submitted one.   *)
C6_Witness ==
    /\ \E l \in Logins : reqs[l].resp.status = 200
    /\ \E r \in Registers :
          \E e \in reqs[r].resp.echo : e.path = "password"

(* C10: a registration that is answered with a failure has written no      *)
(* record.                                                                 *)
C10_FailedRegisterWritesNothing ==
    [][ \A i \in DOMAIN reqs :
          ( /\ reqs[i].pc = "create"
            /\ reqs'[i].pc = "done"
            /\ reqs'[i].resp.status # 201 ) => users' = users ]_vars

(* Requests answered with a token pair *)
Granted == { i \in Done : reqs[i].resp.status \in {200, 201} }

(* C7: a token of the access issuer is accepted by access verification     *)
(* (until it expires) and rejected by refresh verification, and a token of *)
(* the refresh issuer the other way round, whatever secrets the service    *)
(* started with.                                                           *)
C7_TokensNotInterchangeable ==
    \A i \in Granted :
        LET a == reqs[i].resp.token
            r == reqs[i].resp.refreshToken
        IN  /\ now < a.exp => verifyAccess(a) = "ok"
            /\ verifyRefresh(a) # "ok"
            /\ now < r.exp => verifyRefresh(r) = "ok"
            /\ verifyAccess(r) # "ok"

(* The request that arrives in this step, when it is a refresh request *)
RefreshArrives ==
    /\ Len(reqs') = Len(reqs) + 1
    /\ reqs'[Len(reqs')].op = "refresh"

(* C8: a refresh request that presents a valid, unexpired refresh token    *)
(* handed out by register or login is answered with 200 and a new access   *)
(* token for the same user id, and with no new refresh token.              *)
C8_RefreshIssuesAccessToken ==
    [][ LET q == reqs'[Len(reqs')]
            t == q.body.refreshToken
        IN  ( /\ RefreshArrives
              /\ t.p
              /\ t.v \in IssuedRefreshTokens
              /\ verifyRefresh(t.v) = "ok" ) =>
                /\ q.resp.status = 200
                /\ q.resp.token.wf
                /\ q.resp.token.id = t.v.id
                /\ verifyAccess(q.resp.token) = "ok"
                /\ q.resp.refreshToken = NoToken ]_vars

(* C9: a refresh request without a token is answered with 400, and one     *)
(* whose token is expired, tampered with, malformed or an access token is  *)
(* answered with 401; neither is answered with a token.                    *)
C9_RefreshRejectsInvalid ==
    [][ LET q == reqs'[Len(reqs')]
            t == q.body.refreshToken
        IN  RefreshArrives =>
                /\ ~t.p => (q.resp.status = 400 /\ q.resp.token = NoToken)
                /\ (t.p /\ verifyRefresh(t.v) # "ok") =>
                       (q.resp.status = 401 /\ q.resp.token = NoToken) ]_vars

(* The body lacks a required field, or its email has no email-address      *)
(* shape, or its password is one the schema rejects                        *)
InvalidRegisterInput(body) ==
    \/ Falsy(body.name) \/ Falsy(body.email) \/ Falsy(body.password)
    \/ Trim(body.name.v) = <<>>
    \/ ~EmailRegexTest(ToLower(Trim(body.email.v)))
    \/ Len(body.password.v) < MinLength

(* C11: a registration whose input is missing, empty or malformed is       *)
(* answered with a client-fault (4xx) status, never with a server error,   *)
(* and writes no record.                                                   *)
C11_InvalidInputIsClientError ==
    \A i \in Registers :
        InvalidRegisterInput(reqs[i].body) =>
            /\ reqs[i].resp.status \in 400..499
            /\ reqs[i].user = 0

(* The request this step adds to http *)
Arrived == http'[Len(http')]

(* C12: once startup is over, a POST to the documented path of each of the *)
(* three operations is dispatched to that operation's handler; it is       *)
(* neither refused nor answered by the 404 handler.                        *)
C12_OperationsReachable ==
    [][ (Settled /\ Len(http') > Len(http)) =>
            \A op \in Operations :
                (Arrived.method = "POST" /\ Arrived.url = OperationPath(op))
                    => Arrived.outcome = op ]_vars

====
